---- MODULE Spec2Model ----
(***************************************************************************)
(* Model of template_generator.py: a template text is read, a CSV table is *)
(* read, and for every row the placeholders ${NAME} and {{NAME}} of the    *)
(* template are replaced by the row's values and the result is written to  *)
(* the file named by the row's first column.                               *)
(*                                                                         *)
(* Text is a sequence of characters, each character a one-element token.   *)
(***************************************************************************)
EXTENDS Integers, Sequences, FiniteSets, TLC

VARIABLES
    pc,                 \* position of main: "args", "read_template", "read_csv",
                        \* "check_empty", "loop", "exited"
    argv_len,           \* len(sys.argv)
    fs,                 \* the file system: path -> content of the regular files
    dirs,               \* the directories that exist
    template,           \* main's local template
    headers,            \* main's local headers (reader.fieldnames)
    rows,               \* main's local rows (list of DictReader row dicts)
    idx,                \* the loop's idx (enumerate(rows, 1))
    calls,              \* history of the write_output calls of this run
    outcome,            \* history: what happened to each row processed so far
    reported,           \* the number printed by "Generated N file(s)", -1 before
    exit_code,          \* the process's exit status, -1 while running
    exit_cause,         \* why the process ended
    run,                \* which run of the program this is (1 or 2)
    fs_start,           \* history: the file system as this run found it
    fs_run1,            \* history: the file system as the first run left it
    calls_run1,         \* history: the write_output calls of the first run
    cause_run1,         \* history: why the first run ended
    rv_pc,              \* replace_variables called on its own: "call" or "done"
    rv_template,        \* its argument template
    rv_variables,       \* its argument variables (dict, in insertion order)
    rv_result           \* what it returned, or the exception it raised

main_vars == <<pc, argv_len, fs, dirs, template, headers, rows, idx, calls,
               outcome, reported, exit_code, exit_cause, run, fs_start, fs_run1,
               calls_run1, cause_run1>>
rv_vars == <<rv_pc, rv_template, rv_variables, rv_result>>
vars == <<main_vars, rv_vars>>

---------------------------------------------------------------------------
(* Text helpers *)

Range(s) == {s[i] : i \in 1..Len(s)}

StartsWith(s, p) == Len(p) <= Len(s) /\ SubSeq(s, 1, Len(p)) = p

EndsWith(s, p) == Len(p) <= Len(s) /\ SubSeq(s, Len(s) - Len(p) + 1, Len(s)) = p

Contains(s, p) == \E i \in 0..(Len(s) - Len(p)) : SubSeq(s, i + 1, i + Len(p)) = p

RECURSIVE Concat(_)
Concat(ss) == IF ss = <<>> THEN <<>> ELSE Head(ss) \o Concat(Tail(ss))

\* Python's None, as DictReader stores it for a missing field (restval)
NoneVal == <<"<None>">>

\* str(var_value) of line 56: a str is itself, None is the text None
str(v) == IF v = NoneVal THEN <<"N", "o", "n", "e">> ELSE v

---------------------------------------------------------------------------
(* re.sub with a literal pattern and a replacement template *)

AsciiLetters ==
    {"a", "b", "c", "d", "e", "f", "g", "h", "i", "j", "k", "l", "m", "n", "o",
     "p", "q", "r", "s", "t", "u", "v", "w", "x", "y", "z",
     "A", "B", "C", "D", "E", "F", "G", "H", "I", "J", "K", "L", "M", "N", "O",
     "P", "Q", "R", "S", "T", "U", "V", "W", "X", "Y", "Z"}

AsciiDigits == {"0", "1", "2", "3", "4", "5", "6", "7", "8", "9"}

\* The escapes a replacement template turns into one character
ReplEscapes ==
    [c \in {"a", "b", "f", "n", "r", "t", "v", "\\"} |->
        CASE c = "a" -> "<BEL>"
          [] c = "b" -> "<BS>"
          [] c = "f" -> "\f"
          [] c = "n" -> "\n"
          [] c = "r" -> "\r"
          [] c = "t" -> "\t"
          [] c = "v" -> "<VT>"
          [] c = "\\" -> "\\"]

ReError == [ok |-> FALSE, text |-> <<>>]

\* What re does with the replacement string before it substitutes: a backslash
\* and the character after it are an escape. A known escape becomes its
\* character, an unknown escape of an ASCII letter and a lone trailing
\* backslash raise re.error, a backslash before any other character stays.
\* (\g<..> and \<digit> are group references; the texts of this model hold
\* neither g nor digits after a backslash.)
RECURSIVE expand_template(_)
expand_template(repl) ==
    IF repl = <<>> THEN [ok |-> TRUE, text |-> <<>>]
    ELSE IF Head(repl) # "\\"
    THEN LET rest == expand_template(Tail(repl))
         IN  [ok |-> rest.ok, text |-> IF rest.ok THEN <<Head(repl)>> \o rest.text ELSE <<>>]
    ELSE IF Len(repl) = 1 THEN ReError
    ELSE LET c == repl[2]
             rest == expand_template(SubSeq(repl, 3, Len(repl)))
         IN  CASE c \in DOMAIN ReplEscapes ->
                    [ok |-> rest.ok,
                     text |-> IF rest.ok THEN <<ReplEscapes[c]>> \o rest.text ELSE <<>>]
               [] c \in (AsciiLetters \ DOMAIN ReplEscapes) \ {"g"} -> ReError
               [] c \notin AsciiLetters \cup AsciiDigits ->
                    [ok |-> rest.ok,
                     text |-> IF rest.ok THEN <<"\\", c>> \o rest.text ELSE <<>>]

\* Every non-overlapping occurrence of the literal pattern, leftmost first,
\* replaced by text; what is inserted is not scanned again by this call.
RECURSIVE sub_all(_, _, _)
sub_all(pattern, text, string) ==
    IF Len(string) < Len(pattern) THEN string
    ELSE IF StartsWith(string, pattern)
    THEN text \o sub_all(pattern, text, SubSeq(string, Len(pattern) + 1, Len(string)))
    ELSE <<Head(string)>> \o sub_all(pattern, text, Tail(string))

\* re.sub(pattern, repl, string): the template is compiled first, so a bad
\* escape raises even when the pattern matches nowhere
re_sub(pattern, repl, string) ==
    LET e == expand_template(repl)
    IN  IF e.ok THEN [ok |-> TRUE, text |-> sub_all(pattern, e.text, string)]
        ELSE ReError

---------------------------------------------------------------------------
(* replace_variables *)

\* r'\$\{' + re.escape(var_name) + r'\}' matches exactly this text
DollarPattern(var_name) == <<"$", "{">> \o var_name \o <<"}">>

\* r'\{\{' + re.escape(var_name) + r'\}\}' matches exactly this text
BracePattern(var_name) == <<"{", "{">> \o var_name \o <<"}", "}">>

Pattern(form, var_name) ==
    IF form = "dollar" THEN DollarPattern(var_name) ELSE BracePattern(var_name)

\* One of the two for loops: re.sub for every variable in dict order, each on
\* the result of the one before. An exception leaves the loop.
RECURSIVE SubstitutePass(_, _, _)
SubstitutePass(form, variables, result) ==
    IF variables = <<>> \/ ~result.ok THEN result
    ELSE SubstitutePass(form, Tail(variables),
             re_sub(Pattern(form, Head(variables).name),
                    str(Head(variables).value), result.text))

replace_variables(tmpl, variables) ==
    SubstitutePass("brace", variables,
        SubstitutePass("dollar", variables, [ok |-> TRUE, text |-> tmpl]))

---------------------------------------------------------------------------
(* Files *)

\* A regular file holds text, or what a failed write left of a text (some
\* proper prefix of it), or the CSV text of a table, kept as the table
FileText(t) == [kind |-> "text", text |-> t, fieldnames |-> <<>>, records |-> <<>>]

FilePartial(t) == [kind |-> "partial", text |-> t, fieldnames |-> <<>>, records |-> <<>>]

FileTable(f, r) == [kind |-> "table", text |-> <<>>, fieldnames |-> f, records |-> r]

\* The texts f.read() can return for a file that holds text
ReadableTexts(file) ==
    IF file.kind = "partial"
    THEN {SubSeq(file.text, 1, k) : k \in 0..(Len(file.text) - 1)}
    ELSE {file.text}

\* sys.argv[1] and sys.argv[2]
TemplatePath == <<"t", ".", "t", "x", "t">>

CsvPath == <<"c", ".", "t", "x", "t">>

---------------------------------------------------------------------------
(* read_csv: csv.DictReader *)

\* One row dict: dict(zip(fieldnames, row)), then restval None for every
\* fieldname the row is too short for. A name that occurs twice keeps the
\* value of its last column; fields beyond the header go under the key None,
\* which no column name equals.
RowDict(fieldnames, fields) ==
    [n \in Range(fieldnames) |->
        LET last == CHOOSE i \in 1..Len(fieldnames) :
                        /\ fieldnames[i] = n
                        /\ \A j \in 1..Len(fieldnames) : fieldnames[j] = n => j <= i
        IN  IF last <= Len(fields) THEN fields[last] ELSE NoneVal]

RECURSIVE SplitLines(_)
SplitLines(text) ==
    IF ~Contains(text, <<"\n">>) THEN <<text>>
    ELSE LET k == CHOOSE i \in 1..Len(text) :
                      text[i] = "\n" /\ \A j \in 1..(i - 1) : text[j] # "\n"
         IN  <<SubSeq(text, 1, k - 1)>> \o
             (IF k = Len(text) THEN <<>> ELSE SplitLines(SubSeq(text, k + 1, Len(text))))

\* The table csv reads from a text without comma, quote or carriage return:
\* every line is one field, the first line is the header, blank lines are
\* no rows. An empty file has fieldnames None, which `not headers` treats
\* like the empty list.
ParseCsvText(text) ==
    LET lines == IF text = <<>> THEN <<>> ELSE SplitLines(text)
        fieldnames == IF lines = <<>> \/ Head(lines) = <<>> THEN <<>> ELSE <<Head(lines)>>
        data == IF lines = <<>> THEN <<>> ELSE SelectSeq(Tail(lines), LAMBDA l : l # <<>>)
    IN  [headers |-> fieldnames,
         rows |-> [i \in 1..Len(data) |-> RowDict(fieldnames, <<data[i]>>)]]

\* The results read_csv can return for a file
read_csv(file) ==
    IF file.kind = "table"
    THEN {[headers |-> file.fieldnames,
           rows |-> [i \in 1..Len(file.records) |->
                        RowDict(file.fieldnames, file.records[i])]]}
    ELSE {ParseCsvText(t) : t \in ReadableTexts(file)}

---------------------------------------------------------------------------
(* main: the row loop's computations *)

\* str.strip(): whitespace off both ends
Whitespace == {" ", "\t", "\n", "\r", "\f", "<VT>"}

RECURSIVE lstrip(_)
lstrip(s) == IF s # <<>> /\ Head(s) \in Whitespace THEN lstrip(Tail(s)) ELSE s

RECURSIVE rstrip(_)
rstrip(s) ==
    IF s # <<>> /\ s[Len(s)] \in Whitespace THEN rstrip(SubSeq(s, 1, Len(s) - 1)) ELSE s

strip(s) == rstrip(lstrip(s))

TxtExtension == <<".", "t", "x", "t">>

\* Mutation: the extension is added to every name
AddExtensionAlways(output_filename) == output_filename \o TxtExtension

\* Lines 140-141: the extension is added unless the name ends with it
AddExtension(output_filename) ==
    IF ~EndsWith(output_filename, TxtExtension)
    THEN output_filename \o TxtExtension
    ELSE output_filename

\* headers[1:]
VariableColumns(hdrs) == Tail(hdrs)

\* Line 144: {col: row[col] for col in variable_columns}, in dict order: a
\* column name that occurs again keeps its first position
RECURSIVE BuildVariables(_, _, _)
BuildVariables(row, variable_columns, seen) ==
    IF variable_columns = <<>> THEN <<>>
    ELSE LET col == Head(variable_columns)
         IN  IF col \in seen THEN BuildVariables(row, Tail(variable_columns), seen)
             ELSE <<[name |-> col, value |-> row[col]]>> \o
                  BuildVariables(row, Tail(variable_columns), seen \cup {col})

Variables(row, hdrs) == BuildVariables(row, VariableColumns(hdrs), {})

---------------------------------------------------------------------------
(* write_output *)

\* os.path.dirname: what precedes the last slash, without trailing slashes
\* unless it is slashes only
dirname(path) ==
    LET slashes == {i \in 1..Len(path) : path[i] = "/"}
        head == IF slashes = {} THEN <<>>
                ELSE SubSeq(path, 1, CHOOSE i \in slashes : \A j \in slashes : j <= i)
    IN  IF head # <<>> /\ Range(head) # {"/"} THEN
            LET n == CHOOSE k \in 1..Len(head) :
                         head[k] # "/" /\ \A j \in (k + 1)..Len(head) : head[j] = "/"
            IN  SubSeq(head, 1, n)
        ELSE head

\* os.path.exists
Exists(path, files, directories) == path \in DOMAIN files \/ path \in directories

\* The directories os.makedirs(d) has to create, outermost first
RECURSIVE MissingDirs(_, _)
MissingDirs(d, directories) ==
    IF d = <<>> \/ Range(d) = {"/"} \/ d \in directories THEN <<>>
    ELSE MissingDirs(dirname(d), directories) \o <<d>>

\* open(output_path, 'w') cannot succeed: the path is a directory, or its
\* parent is not one
CannotOpen(path, files, directories) ==
    \/ path \in directories
    \/ dirname(path) # <<>> /\ dirname(path) \notin directories

\* Mutation: the file is opened for appending, what it held stays
WrittenAppending(files, path, content) ==
    (path :> FileText((IF path \in DOMAIN files THEN files[path].text ELSE <<>>) \o content))
        @@ files

\* open(output_path, 'w') and f.write(content) having succeeded
Written(files, path, content) == (path :> FileText(content)) @@ files

\* open(output_path, 'w') having truncated the file and f.write(content) or
\* the close having failed
PartlyWritten(files, path, content) ==
    (path :> (IF content = <<>> THEN FileText(content) ELSE FilePartial(content))) @@ files

\* os.makedirs(output_dir) is called (line 71)
MkdirNeeded(path, files, directories) ==
    dirname(path) # <<>> /\ ~Exists(dirname(path), files, directories)

\* The directories after a successful lines 70-72
DirsMade(path, files, directories) ==
    IF MkdirNeeded(path, files, directories)
    THEN directories \cup Range(MissingDirs(dirname(path), directories))
    ELSE directories

\* Lines 70-72 can pass: no directory to make is an existing file
MkdirCanPass(path, files, directories) ==
    \/ ~MkdirNeeded(path, files, directories)
    \/ Range(MissingDirs(dirname(path), directories)) \cap DOMAIN files = {}

\* The try block ran to its end: the file holds content
WriteSuccess(files, directories, path, content) ==
    IF /\ MkdirCanPass(path, files, directories)
       /\ ~CannotOpen(path, files, DirsMade(path, files, directories))
    THEN {[fs |-> Written(files, path, content),
           dirs |-> DirsMade(path, files, directories)]}
    ELSE {}

\* The try block raised (an OSError of the environment at any of its calls, or
\* one the state of the file system forces) and the except clause printed it:
\* in os.makedirs, some outer directories made; in open, the file untouched;
\* in f.write or the close, the file truncated and partly written
WriteFailures(files, directories, path, content) ==
    LET missing == MissingDirs(dirname(path), directories)
    IN  {[fs |-> files, dirs |-> directories \cup {missing[i] : i \in 1..(j - 1)}] :
            j \in {k \in 1..Len(missing) :
                      /\ MkdirNeeded(path, files, directories)
                      /\ \A i \in 1..(k - 1) : missing[i] \notin DOMAIN files}}
        \cup
        (IF MkdirCanPass(path, files, directories)
         THEN {[fs |-> files, dirs |-> DirsMade(path, files, directories)]}
         ELSE {})
        \cup
        {[fs |-> PartlyWritten(files, path, content), dirs |-> w.dirs] :
            w \in WriteSuccess(files, directories, path, content)}

---------------------------------------------------------------------------
(* main *)

\* len(sys.argv) != 3
ExpectedArgc == 3

\* Mutation: only the header is looked at
IsEmptyInputNoHeaders(hdrs, rws) == hdrs = <<>>

\* not headers or not rows
IsEmptyInput(hdrs, rws) == hdrs = <<>> \/ rws = <<>>

\* headers[0]
FilenameColumn(hdrs) == Head(hdrs)

\* row[filename_column] of the row the loop is at
RawFilename == rows[idx][FilenameColumn(headers)]

\* output_filename as line 150 passes it
OutputFilename(raw) == AddExtension(strip(raw))

\* output_content of line 147, or the exception of re.sub
OutputContent == replace_variables(template, Variables(rows[idx], headers))

Exit(code, cause) ==
    /\ pc' = "exited"
    /\ exit_code' = code
    /\ exit_cause' = cause

InLoop == pc = "loop" /\ idx <= Len(rows)

\* Lines 84-104
UsageError ==
    /\ pc = "args"
    /\ argv_len # ExpectedArgc
    /\ Exit(1, "UsageError")
    /\ UNCHANGED <<argv_len, fs, dirs, template, headers, rows, idx, calls, outcome,
                   reported, run, fs_start, fs_run1, calls_run1, cause_run1, rv_vars>>

ArgsOk ==
    /\ pc = "args"
    /\ argv_len = ExpectedArgc
    /\ pc' = "read_template"
    /\ UNCHANGED <<argv_len, fs, dirs, template, headers, rows, idx, calls, outcome,
                   reported, exit_code, exit_cause, run, fs_start, fs_run1,
                   calls_run1, cause_run1, rv_vars>>

\* read_template: FileNotFoundError
TemplateNotFound ==
    /\ pc = "read_template"
    /\ ~Exists(TemplatePath, fs, dirs)
    /\ Exit(1, "TemplateNotFound")
    /\ UNCHANGED <<argv_len, fs, dirs, template, headers, rows, idx, calls, outcome,
                   reported, run, fs_start, fs_run1, calls_run1, cause_run1, rv_vars>>

\* read_template: any other exception of open or read (the path is a
\* directory, no permission, not UTF-8)
TemplateReadError ==
    /\ pc = "read_template"
    /\ Exists(TemplatePath, fs, dirs)
    /\ Exit(1, "TemplateReadError")
    /\ UNCHANGED <<argv_len, fs, dirs, template, headers, rows, idx, calls, outcome,
                   reported, run, fs_start, fs_run1, calls_run1, cause_run1, rv_vars>>

TemplateRead ==
    /\ pc = "read_template"
    /\ TemplatePath \in DOMAIN fs
    /\ fs[TemplatePath].kind # "table"
    /\ \E t \in ReadableTexts(fs[TemplatePath]) : template' = t
    /\ pc' = "read_csv"
    /\ UNCHANGED <<argv_len, fs, dirs, headers, rows, idx, calls, outcome, reported,
                   exit_code, exit_cause, run, fs_start, fs_run1, calls_run1, cause_run1, rv_vars>>

\* read_csv: FileNotFoundError
CsvNotFound ==
    /\ pc = "read_csv"
    /\ ~Exists(CsvPath, fs, dirs)
    /\ Exit(1, "CsvNotFound")
    /\ UNCHANGED <<argv_len, fs, dirs, template, headers, rows, idx, calls, outcome,
                   reported, run, fs_start, fs_run1, calls_run1, cause_run1, rv_vars>>

\* read_csv: any other exception of open or of the reader
CsvReadError ==
    /\ pc = "read_csv"
    /\ Exists(CsvPath, fs, dirs)
    /\ Exit(1, "CsvReadError")
    /\ UNCHANGED <<argv_len, fs, dirs, template, headers, rows, idx, calls, outcome,
                   reported, run, fs_start, fs_run1, calls_run1, cause_run1, rv_vars>>

CsvRead ==
    /\ pc = "read_csv"
    /\ CsvPath \in DOMAIN fs
    /\ \E r \in read_csv(fs[CsvPath]) :
          /\ headers' = r.headers
          /\ rows' = r.rows
    /\ pc' = "check_empty"
    /\ UNCHANGED <<argv_len, fs, dirs, template, idx, calls, outcome, reported,
                   exit_code, exit_cause, run, fs_start, fs_run1, calls_run1, cause_run1, rv_vars>>

\* Lines 117-119
EmptyInput ==
    /\ pc = "check_empty"
    /\ IsEmptyInput(headers, rows)
    /\ Exit(1, "EmptyInput")
    /\ UNCHANGED <<argv_len, fs, dirs, template, headers, rows, idx, calls, outcome,
                   reported, run, fs_start, fs_run1, calls_run1, cause_run1, rv_vars>>

\* Lines 121-132: the loop is entered
BeginLoop ==
    /\ pc = "check_empty"
    /\ ~IsEmptyInput(headers, rows)
    /\ pc' = "loop"
    /\ idx' = 1
    /\ UNCHANGED <<argv_len, fs, dirs, template, headers, rows, calls, outcome,
                   reported, exit_code, exit_cause, run, fs_start, fs_run1,
                   calls_run1, cause_run1, rv_vars>>

\* Line 134 on a row whose filename field is None: None has no strip, the
\* AttributeError is caught nowhere and ends the process with status 1
RowFilenameError ==
    /\ InLoop
    /\ RawFilename = NoneVal
    /\ Exit(1, "AttributeError")
    /\ outcome' = Append(outcome, "AttributeError")
    /\ UNCHANGED <<argv_len, fs, dirs, template, headers, rows, idx, calls, reported,
                   run, fs_start, fs_run1, calls_run1, cause_run1, rv_vars>>

\* Mutation: an empty filename ends the run
SkipRowAborts ==
    /\ InLoop
    /\ RawFilename # NoneVal
    /\ strip(RawFilename) = <<>>
    /\ outcome' = Append(outcome, "skipped")
    /\ Exit(1, "EmptyFilename")
    /\ UNCHANGED <<argv_len, fs, dirs, template, headers, rows, idx, calls, reported,
                   run, fs_start, fs_run1, calls_run1, cause_run1, rv_vars>>

\* Lines 135-137
SkipRow ==
    /\ InLoop
    /\ RawFilename # NoneVal
    /\ strip(RawFilename) = <<>>
    /\ outcome' = Append(outcome, "skipped")
    /\ idx' = idx + 1
    /\ UNCHANGED <<pc, argv_len, fs, dirs, template, headers, rows, calls, reported,
                   exit_code, exit_cause, run, fs_start, fs_run1, calls_run1, cause_run1, rv_vars>>

\* Line 147 raising re.error: caught nowhere, the process ends with status 1
RowSubstitutionError ==
    /\ InLoop
    /\ RawFilename # NoneVal
    /\ strip(RawFilename) # <<>>
    /\ ~OutputContent.ok
    /\ Exit(1, "re.error")
    /\ outcome' = Append(outcome, "re.error")
    /\ UNCHANGED <<argv_len, fs, dirs, template, headers, rows, idx, calls, reported,
                   run, fs_start, fs_run1, calls_run1, cause_run1, rv_vars>>

\* Lines 139-150, write_output having written the file
RowWritten ==
    /\ InLoop
    /\ RawFilename # NoneVal
    /\ strip(RawFilename) # <<>>
    /\ OutputContent.ok
    /\ \E w \in WriteSuccess(fs, dirs, OutputFilename(RawFilename), OutputContent.text) :
          /\ fs' = w.fs
          /\ dirs' = w.dirs
    /\ calls' = Append(calls, [row |-> idx, path |-> OutputFilename(RawFilename),
                               content |-> OutputContent.text, ok |-> TRUE])
    /\ outcome' = Append(outcome, "written")
    /\ idx' = idx + 1
    /\ UNCHANGED <<pc, argv_len, template, headers, rows, reported, exit_code,
                   exit_cause, run, fs_start, fs_run1, calls_run1, cause_run1, rv_vars>>

\* Mutation: write_output has no except clause, the exception ends the run
RowWriteFailedRaises ==
    /\ InLoop
    /\ RawFilename # NoneVal
    /\ strip(RawFilename) # <<>>
    /\ OutputContent.ok
    /\ \E w \in WriteFailures(fs, dirs, OutputFilename(RawFilename), OutputContent.text) :
          /\ fs' = w.fs
          /\ dirs' = w.dirs
    /\ calls' = Append(calls, [row |-> idx, path |-> OutputFilename(RawFilename),
                               content |-> OutputContent.text, ok |-> FALSE])
    /\ outcome' = Append(outcome, "write failed")
    /\ Exit(1, "OSError")
    /\ UNCHANGED <<argv_len, template, headers, rows, idx, reported, run, fs_start,
                   fs_run1, calls_run1, cause_run1, rv_vars>>

\* Lines 139-150, write_output having caught an exception (lines 77-78)
RowWriteFailed ==
    /\ InLoop
    /\ RawFilename # NoneVal
    /\ strip(RawFilename) # <<>>
    /\ OutputContent.ok
    /\ \E w \in WriteFailures(fs, dirs, OutputFilename(RawFilename), OutputContent.text) :
          /\ fs' = w.fs
          /\ dirs' = w.dirs
    /\ calls' = Append(calls, [row |-> idx, path |-> OutputFilename(RawFilename),
                               content |-> OutputContent.text, ok |-> FALSE])
    /\ outcome' = Append(outcome, "write failed")
    /\ idx' = idx + 1
    /\ UNCHANGED <<pc, argv_len, template, headers, rows, reported, exit_code,
                   exit_cause, run, fs_start, fs_run1, calls_run1, cause_run1, rv_vars>>

\* The number line 153 prints
GeneratedCount(rws) == Len(rws)

\* Line 153 and the end of main
Summary ==
    /\ pc = "loop"
    /\ idx > Len(rows)
    /\ reported' = GeneratedCount(rows)
    /\ Exit(0, "none")
    /\ UNCHANGED <<argv_len, fs, dirs, template, headers, rows, idx, calls, outcome,
                   run, fs_start, fs_run1, calls_run1, cause_run1, rv_vars>>

\* The program is started again with the same two paths
Rerun ==
    /\ pc = "exited"
    /\ run = 1
    /\ run' = 2
    /\ fs_run1' = fs
    /\ calls_run1' = calls
    /\ cause_run1' = exit_cause
    /\ fs_start' = fs
    /\ pc' = "args"
    /\ template' = <<>>
    /\ headers' = <<>>
    /\ rows' = <<>>
    /\ idx' = 0
    /\ calls' = <<>>
    /\ outcome' = <<>>
    /\ reported' = -1
    /\ exit_code' = -1
    /\ exit_cause' = "running"
    /\ UNCHANGED <<argv_len, fs, dirs, rv_vars>>

\* replace_variables called with rv_template and rv_variables
RVCall ==
    /\ rv_pc = "call"
    /\ rv_result' = replace_variables(rv_template, rv_variables)
    /\ rv_pc' = "done"
    /\ UNCHANGED <<rv_template, rv_variables, main_vars>>

---------------------------------------------------------------------------
(* The inputs of the runs that are checked *)

MaxRows == 2

MaxSegments == 2

ArgvLens == {2, 3, 4}

ColF == <<"F">>

ColA == <<"A">>

ColB == <<"B">>

NoFiles == [p \in {} |-> FileText(<<>>)]

\* The rows a table with these fieldnames is given: full rows and rows of one
\* field. The field of a column whose name a later column repeats is never
\* looked at (RowDict), so it is one fixed text.
RowsFor(fieldnames, fnames, avalues) ==
    LET choices(i) ==
            IF fieldnames[i] # ColF THEN avalues
            ELSE IF \E j \in (i + 1)..Len(fieldnames) : fieldnames[j] = ColF
                 THEN {<<"z">>}
                 ELSE fnames
        upto(n) == {r \in [1..n -> fnames \cup avalues \cup {<<"z">>}] :
                       \A i \in 1..n : r[i] \in choices(i)}
    IN  IF fieldnames = <<>> THEN {<<<<"z">>>>}
        ELSE upto(1) \cup upto(Len(fieldnames))

TablesOver(fieldnameses, fnames, avalues, maxrows) ==
    UNION {{FileTable(h, r) :
                r \in UNION {[1..n -> RowsFor(h, fnames, avalues)] : n \in 0..maxrows}} :
           h \in fieldnameses}

InitMain(templates, tables) ==
    /\ pc = "args"
    /\ argv_len \in ArgvLens
    /\ \E tf \in {NoFiles} \cup {TemplatePath :> FileText(t) : t \in templates},
          cf \in {NoFiles} \cup {CsvPath :> c : c \in tables} :
          fs = tf @@ cf
    /\ dirs = {}
    /\ template = <<>>
    /\ headers = <<>>
    /\ rows = <<>>
    /\ idx = 0
    /\ calls = <<>>
    /\ outcome = <<>>
    /\ reported = -1
    /\ exit_code = -1
    /\ exit_cause = "running"
    /\ run = 1
    /\ fs_start = fs
    /\ fs_run1 = NoFiles
    /\ calls_run1 = <<>>
    /\ cause_run1 = "running"
    /\ rv_pc = "idle"
    /\ rv_template = <<>>
    /\ rv_variables = <<>>
    /\ rv_result = [ok |-> TRUE, text |-> <<>>]

Text_DollarA_BraceF == <<"$", "{", "A", "}", "{", "{", "F", "}", "}">>

MainTemplates == {Text_DollarA_BraceF}

MainFilenames ==
    {<<>>, <<" ">>, <<"t">>, <<" ", "t", ".", "t", "x", "t">>, <<"d", "/", "t">>}

MainValues == {<<"v">>, <<"w">>, <<"\\">>}

MainHeaders == {<<>>, <<ColF>>, <<ColF, ColA>>, <<ColF, ColF>>}

Init == InitMain(MainTemplates, TablesOver(MainHeaders, MainFilenames, MainValues, MaxRows))

Next ==
    \/ UsageError
    \/ ArgsOk
    \/ TemplateNotFound
    \/ TemplateReadError
    \/ TemplateRead
    \/ CsvNotFound
    \/ CsvReadError
    \/ CsvRead
    \/ EmptyInput
    \/ BeginLoop
    \/ RowFilenameError
    \/ SkipRow
    \/ RowSubstitutionError
    \/ RowWritten
    \/ RowWriteFailed
    \/ Summary

Spec == Init /\ [][Next]_vars

---------------------------------------------------------------------------
(* Properties of a run of main *)

Exited == pc = "exited"

\* The rows the loop has dealt with
Processed == 1..Len(outcome)

\* The filename field of row i of the table
FilenameField(i) == rows[i][headers[1]]

HasFilename(i) ==
    /\ FilenameField(i) # NoneVal
    /\ \E k \in 1..Len(FilenameField(i)) : FilenameField(i)[k] \notin Whitespace

\* The text the claims call the substitution of the template with row i's
\* variable fields, as replace_variables returns it
RowContent(i) == replace_variables(template, Variables(rows[i], headers)).text

SuccessfulCalls == {i \in 1..Len(calls) : calls[i].ok}

LastCallOfItsPath(i) == \A j \in (i + 1)..Len(calls) : calls[j].path # calls[i].path

\* C3: at the end of a run of main the reported number of files generated is
\* the number of rows for which write_output wrote a file; skipped rows and
\* rows whose write failed are not counted.
C3_ReportedCountIsWrittenCount ==
    (Exited /\ exit_code = 0) => reported = Cardinality(SuccessfulCalls)

\* The header names are distinct and no row has fewer fields than the header
WellFormedTable ==
    /\ \A i, j \in 1..Len(headers) : headers[i] = headers[j] => i = j
    /\ \A i \in 1..Len(rows) : \A n \in DOMAIN rows[i] : rows[i][n] # NoneVal

C5_EmptyFilenameIsSkipped ==
    [][(/\ pc = "loop"
        /\ idx <= Len(rows)
        /\ FilenameField(idx) # NoneVal
        /\ \A k \in 1..Len(FilenameField(idx)) : FilenameField(idx)[k] \in Whitespace)
       => /\ pc' = "loop"
          /\ idx' = idx + 1
          /\ exit_code' = -1
          /\ calls' = calls
          /\ fs' = fs
          /\ dirs' = dirs
          /\ <<template, headers, rows>>' = <<template, headers, rows>>]_vars

\* A whitespace-only row was skipped and a later row was written
C5_Witness ==
    \E i, j \in Processed :
        /\ i < j
        /\ outcome[i] = "skipped"
        /\ FilenameField(i) # <<>>
        /\ outcome[j] = "written"
        /\ calls # <<>>

\* C6: a failure in write_output does not end the run: the step in which the
\* call fails leaves main in the loop at the next row with no exit status
\* set and every other file as it was, and a run that has dealt with all its
\* rows, whatever writes failed, ends with exit status 0.
C6_WriteFailureIsNotFatal ==
    [][/\ (Len(calls') = Len(calls) + 1 /\ ~calls'[Len(calls')].ok)
          => /\ pc' = "loop"
             /\ idx' = idx + 1
             /\ exit_code' = -1
             /\ \A p \in (DOMAIN fs \cup DOMAIN fs') \ {calls'[Len(calls')].path} :
                   p \in DOMAIN fs /\ p \in DOMAIN fs' /\ fs'[p] = fs[p]
       /\ (/\ pc' = "exited"
           /\ Len(outcome') = Len(rows')
           /\ rows' # <<>>
           /\ \A r \in 1..Len(outcome') :
                 outcome'[r] \in {"skipped", "written", "write failed"})
          => exit_code' = 0]_vars

\* A write failed, a later row was written all the same, and the run ended
\* with exit status 0
C6_Witness ==
    /\ Exited
    /\ exit_code = 0
    /\ \E i, j \in 1..Len(calls) :
          /\ i < j
          /\ ~calls[i].ok
          /\ calls[j].ok
          /\ calls[j].path # calls[i].path
          /\ calls[j].path \in DOMAIN fs
          /\ fs[calls[j].path] = FileText(calls[j].content)

\* The table read_csv is given has no columns or no data rows
TableIsEmpty(files) ==
    /\ CsvPath \in DOMAIN files
    /\ files[CsvPath].kind = "table"
    /\ files[CsvPath].fieldnames = <<>> \/ files[CsvPath].records = <<>>

FatalCondition ==
    \/ argv_len # 3
    \/ TemplatePath \notin DOMAIN fs_start
    \/ CsvPath \notin DOMAIN fs_start
    \/ exit_cause \in {"TemplateReadError", "CsvReadError"}
    \/ TableIsEmpty(fs_start)

\* C7: under every fatal condition (wrong argument count, template missing
\* or unreadable, table missing or unreadable, table without columns or
\* without data rows) the run never enters the row loop, makes no
\* write_output call, leaves the files as they were, and when it has ended
\* its exit status is non-zero.
C7_FatalBeforeAnyOutput ==
    FatalCondition =>
        /\ pc # "loop"
        /\ calls = <<>>
        /\ fs = fs_start
        /\ dirs = {}
        /\ Exited => exit_code \notin {0, -1}

\* The run ended on a table with a header and no data rows, the template read
C7_Witness ==
    /\ Exited
    /\ exit_cause = "EmptyInput"
    /\ headers # <<>>
    /\ rows = <<>>
    /\ TemplatePath \in DOMAIN fs
    /\ calls = <<>>

TxtTxt == TxtExtension \o TxtExtension

\* C8: the path of every write_output call is the trimmed filename value,
\* with .txt appended exactly when the trimmed value does not end with .txt;
\* so it ends with .txt, and with .txt.txt only if the value did.
C8_ExtensionAddedOnce ==
    \A i \in 1..Len(calls) :
        LET raw == FilenameField(calls[i].row)
            path == calls[i].path
        IN  \E a \in 0..Len(raw) : \E b \in 0..(Len(raw) - a) :
                LET t == SubSeq(raw, a + 1, Len(raw) - b)
                IN  /\ \A k \in (1..a) \cup ((Len(raw) - b + 1)..Len(raw)) :
                          raw[k] \in Whitespace
                    /\ t # <<>>
                    /\ t[1] \notin Whitespace
                    /\ t[Len(t)] \notin Whitespace
                    /\ EndsWith(t, TxtExtension) => path = t
                    /\ ~EndsWith(t, TxtExtension) => path = t \o TxtExtension
                    /\ EndsWith(path, TxtExtension)
                    /\ EndsWith(path, TxtTxt) => EndsWith(t, TxtTxt)

\* One call for a padded value that ends with .txt, nothing appended, and one
\* for a value without the extension, .txt appended
C8_Witness ==
    \E i, j \in 1..Len(calls) :
        /\ EndsWith(strip(FilenameField(calls[i].row)), TxtExtension)
        /\ FilenameField(calls[i].row) # calls[i].path
        /\ Len(calls[i].path) < Len(FilenameField(calls[i].row))
        /\ ~EndsWith(FilenameField(calls[j].row), TxtExtension)
        /\ calls[j].path = FilenameField(calls[j].row) \o TxtExtension

\* C9: the variable mapping main passes to replace_variables never has the
\* filename column's name as a key, whatever the header, so a placeholder
\* that names the filename column is in the output as it is in the template.
C9_FilenameColumnIsNoVariable ==
    \A i \in 1..Len(calls) :
        /\ \A k \in 1..Len(Variables(rows[calls[i].row], headers)) :
              Variables(rows[calls[i].row], headers)[k].name # headers[1]
        /\ Contains(template, BracePattern(headers[1])) =>
              Contains(calls[i].content, BracePattern(headers[1]))

---------------------------------------------------------------------------
(* Two runs in succession with the same two paths *)

Text_F_Newline_DollarA == <<"F", "\n", "$", "{", "A", "}">>

TwiceTemplates == {Text_F_Newline_DollarA}

\* t.txt is the template file, c.txt the table file
TwiceFilenames == {<<"t">>, <<"c">>, <<"a">>}

TwiceValues == {<<"v">>, <<"w">>}

\* Tables that make the second specification take the remaining branches of
\* main: a repeated header with a short row, a blank filename, a value that
\* is no replacement template
BranchTables ==
    {FileTable(<<ColF, ColF>>, <<<<<<"z">>>>>>),
     FileTable(<<ColF, ColA>>, <<<<<<" ">>, <<"v">>>>>>),
     FileTable(<<ColF, ColA>>, <<<<<<"a">>, <<"\\">>>>>>)}

InitTwice ==
    InitMain(TwiceTemplates,
             TablesOver({<<ColF, ColA>>}, TwiceFilenames, TwiceValues, MaxRows)
                 \cup BranchTables)

NextTwice == Next \/ Rerun

SpecTwice == InitTwice /\ [][NextTwice]_vars

SecondRunEnded == run = 2 /\ Exited

\* No read and no write_output call of either run met an I/O error
NoIoFailure ==
    /\ exit_cause \notin {"TemplateReadError", "CsvReadError"}
    /\ cause_run1 \notin {"TemplateReadError", "CsvReadError"}
    /\ \A i \in 1..Len(calls) : calls[i].ok
    /\ \A i \in 1..Len(calls_run1) : calls_run1[i].ok

\* C10 as claimed: two runs in succession with the same template path and
\* table path leave the same files with the same contents, the second as the
\* first, for every table, also one with a row whose output path is the
\* template file or the table file. (Stated for runs that meet no I/O error.)
C10_SecondRunSameFiles ==
    (SecondRunEnded /\ NoIoFailure) => fs = fs_run1

\* C10 amended: two runs in succession that meet no I/O error leave the same
\* files with the same contents, and make the same write_output calls, for
\* every table in which no row's output path is the template file or the
\* table file.
C10_SecondRunSameFilesUnlessInputOverwritten ==
    (/\ SecondRunEnded
     /\ NoIoFailure
     /\ \A i \in 1..Len(calls_run1) : calls_run1[i].path \notin {TemplatePath, CsvPath})
    => /\ fs = fs_run1
       /\ calls = calls_run1

\* Both runs wrote files, none of them an input, and ended with status 0
C10_Witness ==
    /\ SecondRunEnded
    /\ NoIoFailure
    /\ exit_code = 0
    /\ Len(calls_run1) >= 2
    /\ \A i \in 1..Len(calls_run1) : calls_run1[i].path \notin {TemplatePath, CsvPath}
    /\ calls = calls_run1
    /\ fs = fs_run1

---------------------------------------------------------------------------
(* replace_variables on its own *)

RVSegments ==
    {DollarPattern(ColA), BracePattern(ColA), DollarPattern(ColB), BracePattern(ColB),
     DollarPattern(ColF), <<"x">>}

RVTemplates ==
    {Concat(ss) : ss \in UNION {[1..n -> RVSegments] : n \in 0..MaxSegments}}

RVValues ==
    {<<>>, <<"v">>, DollarPattern(ColB), BracePattern(ColB), BracePattern(ColA),
     <<"\\", "\\">>, <<"\\", "n">>, <<"\\", "x">>, <<"\\">>, <<"\\", "$">>, NoneVal}

\* The dicts main can build from the columns A and B, in either order
RVVariableMaps ==
    {<<[name |-> ColA, value |-> a]>> : a \in RVValues}
    \cup {<<[name |-> ColA, value |-> a], [name |-> ColB, value |-> b]>> :
              a \in RVValues, b \in RVValues}
    \cup {<<[name |-> ColB, value |-> b], [name |-> ColA, value |-> a]>> :
              a \in RVValues, b \in RVValues}

InitRV ==
    /\ rv_pc = "call"
    /\ rv_template \in RVTemplates
    /\ rv_variables \in RVVariableMaps
    /\ rv_result = [ok |-> TRUE, text |-> <<>>]
    /\ pc = "idle"
    /\ argv_len = 0
    /\ fs = NoFiles
    /\ dirs = {}
    /\ template = <<>>
    /\ headers = <<>>
    /\ rows = <<>>
    /\ idx = 0
    /\ calls = <<>>
    /\ outcome = <<>>
    /\ reported = -1
    /\ exit_code = -1
    /\ exit_cause = "running"
    /\ run = 1
    /\ fs_start = NoFiles
    /\ fs_run1 = NoFiles
    /\ calls_run1 = <<>>
    /\ cause_run1 = "running"

NextRV == RVCall

SpecRV == InitRV /\ [][NextRV]_vars

\* The text the claims describe: one scan of the template from left to
\* right in which every placeholder of a variable of the mapping is replaced
\* by the variable's value as it is, and every other character is copied
RECURSIVE OneScan(_, _)
OneScan(tmpl, variables) ==
    IF tmpl = <<>> THEN <<>>
    ELSE LET hits == {k \in 1..Len(variables) :
                         \/ StartsWith(tmpl, <<"$", "{">> \o variables[k].name \o <<"}">>)
                         \/ StartsWith(tmpl, <<"{", "{">> \o variables[k].name \o <<"}", "}">>)}
         IN  IF hits = {} THEN <<Head(tmpl)>> \o OneScan(Tail(tmpl), variables)
             ELSE LET k == CHOOSE h \in hits : TRUE
                      used == IF tmpl[1] = "$" THEN Len(variables[k].name) + 3
                              ELSE Len(variables[k].name) + 4
                  IN  str(variables[k].value) \o
                      OneScan(SubSeq(tmpl, used + 1, Len(tmpl)), variables)

\* C1: the text replace_variables returns has every ${NAME} and {{NAME}} of
\* a variable of the mapping replaced by exactly the variable's value and
\* every other placeholder as it is in the template.
C1_EveryPlaceholderReplacedByItsValue ==
    rv_pc = "done" =>
        /\ rv_result.ok
        /\ rv_result.text = OneScan(rv_template, rv_variables)

HasPlaceholderOf(text, var_name) ==
    \/ Contains(text, <<"$", "{">> \o var_name \o <<"}">>)
    \/ Contains(text, <<"{", "{">> \o var_name \o <<"}", "}">>)

\* C2: what is inserted as a variable's value is not scanned again: when the
\* value of a variable that the template refers to holds a placeholder of
\* another variable of the mapping, the returned text holds that value, the
\* placeholder in it included, as it is. (Stated for values without
\* backslash, which re.sub inserts as they are.)
C2_InsertedValueIsNotRescanned ==
    (/\ rv_pc = "done"
     /\ \A k \in 1..Len(rv_variables) : "\\" \notin Range(rv_variables[k].value))
    => /\ rv_result.ok
       /\ \A a, b \in 1..Len(rv_variables) :
             (/\ a # b
              /\ HasPlaceholderOf(rv_variables[a].value, rv_variables[b].name)
              /\ HasPlaceholderOf(rv_template, rv_variables[a].name))
             => Contains(rv_result.text, rv_variables[a].value)

====
